---- MODULE Spec2Model ----
(***************************************************************************)
(* Timeline model and position resolver of the score follower.             *)
(*                                                                         *)
(* Times are integers (ticks of the transport clock); a progress value is  *)
(* the exact fraction num/den, so that interpolation is computed, not      *)
(* rounded.  A fraction with den = 0 is a non-finite IEEE value: num = 0   *)
(* is NaN, num > 0 is +Infinity, num < 0 is -Infinity.                     *)
(***************************************************************************)
EXTENDS Integers, Sequences, FiniteSets, TLC

VARIABLES
    anchors,       \* App state `anchors`: Anchor[] in storage order
    beatAnchors,   \* App state `beatAnchors`: BeatAnchor[] in storage order
    isLevel2Mode,  \* App state `isLevel2Mode`
    mode,          \* App state `mode`: "PLAYBACK" | "RECORD"
    subdivision,   \* App state `subdivision`: beats per measure for the generator
    audioTime,     \* audioRef.current.currentTime as the program assigned it last
    project,       \* the project row in the backend, NoProject before a save
    mounted,       \* ScrollView: "no" before the mount, "yes", "gone" after the unmount
    loads,         \* useOSMD: the load promise of every OSMD instance created so far
    osmdRef,       \* useOSMD: osmdRef.current as an index into loads, 0 is null
    isLoaded,      \* useOSMD: state `isLoaded`
    loopFor,       \* the value of isLoaded the animation effect ran with last
    frameRef,      \* ScrollView: animationFrameRef.current, 0 is null
    frames,        \* the animation frame requests that are pending in the browser
    revealMode,    \* App state `revealMode`: "OFF" | "NOTE" | "CURTAIN"
    isLocked,      \* App state `isLocked`: the camera lock
    paused,        \* audioRef.current.paused
    measureCount,  \* osmd.GraphicSheet.MeasureList.length of the loaded score
    cursorX,       \* ScrollView: cursorRef.current.style.left in px
    scrollLeft,    \* ScrollView: scrollContainerRef.current.scrollLeft in px
    curtainShown,  \* ScrollView: the curtain's display is 'block'
    hidden,        \* ScrollView: the score elements whose opacity is '0'
    lit,           \* ScrollView: the notes whose fill is the highlight color
    lastMeasureIndex,  \* ScrollView: lastMeasureIndexRef.current
    prevRevealMode,    \* ScrollView: prevRevealModeRef.current
    resizeTimers,  \* ScrollView: the pending timeouts of handleResize
    rebuilds,      \* ScrollView: the runs of calculateNoteMap that the timeouts made
    staffEntries,  \* the rendered note onsets of a measure: px from its left, in OSMD's order
    beatXMap,      \* ScrollView: beatXMapRef.current, measure -> beat -> px
    drag,          \* the mousemove/mouseup listeners of a marker drag, NoDrag without
    last,          \* the handler that ran last and its inputs
    pos            \* the resolver's latest result and the time it was asked for

\* the state of the score view (useOSMD and the animation effect)
viewVars == <<mounted, loads, osmdRef, isLoaded, loopFor, frameRef, frames>>

\* the props, refs and DOM state of the score view's render tick
renderVars == <<revealMode, isLocked, paused, measureCount, cursorX, scrollLeft,
                curtainShown, hidden, lit, lastMeasureIndex, prevRevealMode,
                resizeTimers, rebuilds, staffEntries, beatXMap, drag>>

\* what the handlers of the anchor editor leave alone
others == <<subdivision, audioTime, project, viewVars, renderVars>>

vars == <<anchors, beatAnchors, isLevel2Mode, mode, subdivision, audioTime, project,
          mounted, loads, osmdRef, isLoaded, loopFor, frameRef, frames, revealMode,
          isLocked, paused, measureCount, cursorX, scrollLeft, curtainShown, hidden,
          lit, lastMeasureIndex, prevRevealMode, resizeTimers, rebuilds, staffEntries,
          beatXMap, drag, last, pos>>

----------------------------------------------------------------------------
(* Bounds of the model *)

MaxMeasure == 2    \* measure numbers of the editor's inputs and of stored timelines
MaxTime == 2       \* transport times range over 0..MaxTime
MaxAnchors == 3    \* longest measure-anchor list the editor builds
MaxStored == 2     \* longest measure-anchor list of a stored timeline

Measures == 1..MaxMeasure
Times == 0..MaxTime
Beats == {2, 3}    \* explicit beat numbers (beat 1 is the measure anchor)

----------------------------------------------------------------------------
(* Data *)

Anchor(m, t) == [measure |-> m, time |-> t]
BeatAnchor(m, b, t) == [measure |-> m, beat |-> b, time |-> t]

INITIAL_ANCHORS == <<Anchor(1, 0)>>

NoOp == [op |-> "none", measure |-> 0, time |-> 0]
NoPos == [by |-> "none", time |-> 0, measure |-> 0, beat |-> 0,
          progress |-> [num |-> 0, den |-> 1]]

\* prev.filter(a => a.measure !== measure)
RECURSIVE FilterOutMeasure(_, _)
FilterOutMeasure(s, m) ==
    IF s = <<>> THEN <<>>
    ELSE IF Head(s).measure # m
         THEN <<Head(s)>> \o FilterOutMeasure(Tail(s), m)
         ELSE FilterOutMeasure(Tail(s), m)

\* One step of the stable sort by measure: x goes after every element whose
\* measure is not greater than its own.
RECURSIVE InsertByMeasure(_, _)
InsertByMeasure(s, x) ==
    IF s = <<>> THEN <<x>>
    ELSE IF Head(s).measure <= x.measure
         THEN <<Head(s)>> \o InsertByMeasure(Tail(s), x)
         ELSE <<x>> \o s

\* Array.prototype.sort((a, b) => a.measure - b.measure): stable
RECURSIVE SortByMeasure(_)
SortByMeasure(s) ==
    IF s = <<>> THEN <<>>
    ELSE InsertByMeasure(SortByMeasure(SubSeq(s, 1, Len(s) - 1)), s[Len(s)])

\* the state updater of upsertAnchor, without the filter (a second anchor for
\* the measure is added instead of replacing the first)
UpsertNoFilter(prev, measure, time) ==
    SortByMeasure(Append(prev, Anchor(measure, time)))

\* the state updater of upsertAnchor
upsertAnchor(prev, measure, time) ==
    SortByMeasure(Append(FilterOutMeasure(prev, measure), Anchor(measure, time)))

\* the state updater of handleDelete, without the guard for measure 1
DeleteNoGuard(prev, measureToDelete) ==
    FilterOutMeasure(prev, measureToDelete)

\* handleDelete: rejected for measure 1, else every anchor of the measure goes
handleDelete(prev, measureToDelete) ==
    IF measureToDelete = 1 THEN prev
    ELSE FilterOutMeasure(prev, measureToDelete)

\* handleTap that ignores the mode
TapAnyMode(prev, m, currentTime) ==
    Append(prev, Anchor(Len(prev) + 1, currentTime))

\* handleTap: only in RECORD mode, measure = number of anchors + 1
handleTap(prev, m, currentTime) ==
    IF m # "RECORD" THEN prev
    ELSE Append(prev, Anchor(Len(prev) + 1, currentTime))

----------------------------------------------------------------------------
(* The position resolver *)

Frac(n, d) == [num |-> n, den |-> d]

\* Stored times are never negative, so two negative codes stand for the stored
\* values that are not finite numbers: NaN is what parseFloat gives for an
\* emptied time input, null is what JSON.stringify writes for NaN and
\* JSON.parse reads back.
NaN == 0 - 1
null == 0 - 2

IsNaN(v) == v = NaN

\* ToNumber of a stored time: null is 0, NaN stays NaN
Num(v) == IF v = null THEN 0 ELSE v

\* x >= y and x > y of JavaScript: false as soon as an operand is NaN
Geq(x, y) == ~IsNaN(x) /\ ~IsNaN(y) /\ Num(x) >= Num(y)
Gt(x, y) == ~IsNaN(x) /\ ~IsNaN(y) /\ Num(x) > Num(y)

\* x - y of JavaScript as a fraction
Minus(x, y) == IF IsNaN(x) \/ IsNaN(y) THEN Frac(0, 0) ELSE Frac(Num(x) - Num(y), 1)

\* f > 0 of JavaScript: false for NaN
Positive(f) == f.num > 0

\* the comparator (a, b) => a.time - b.time as Array.prototype.sort reads it:
\* a NaN result counts as 0.  (Two elements with a NaN between them compare
\* equal both ways and keep their order; for longer lists with a NaN the order
\* is the engine's, and the model takes the one of an insertion sort.)
CompareTime(a, b) ==
    IF IsNaN(a.time) \/ IsNaN(b.time) THEN 0 ELSE Num(a.time) - Num(b.time)

\* JavaScript's x / y on integers, as an exact fraction with den >= 0
Divide(x, y) == IF y < 0 THEN Frac(0 - x, 0 - y) ELSE Frac(x, y)

\* Math.max(0, Math.min(1, p)): NaN stays NaN, +Infinity gives 1, -Infinity 0
Clamp01(p) ==
    IF p.den = 0
    THEN IF p.num > 0 THEN Frac(1, 1) ELSE IF p.num < 0 THEN Frac(0, 1) ELSE p
    ELSE IF p.num < 0 THEN Frac(0, 1)
         ELSE IF p.num > p.den THEN Frac(1, 1) ELSE p

\* the sort left out: the scan runs over the storage order
NoSort(s) == s

\* the comparator the wrong way round: (a, b) => b.time - a.time
RECURSIVE SortByTimeDesc(_)
SortByTimeDesc(s) ==
    IF s = <<>> THEN <<>>
    ELSE LET rest == SortByTimeDesc(SubSeq(s, 1, Len(s) - 1))
             x == s[Len(s)]
             k == Cardinality({i \in 1..Len(rest) : rest[i].time >= x.time})
         IN  SubSeq(rest, 1, k) \o <<x>> \o SubSeq(rest, k + 1, Len(rest))

\* One step of the stable sort by time: x goes after every element that the
\* comparator does not put after it.
RECURSIVE InsertByTime(_, _)
InsertByTime(s, x) ==
    IF s = <<>> THEN <<x>>
    ELSE IF CompareTime(Head(s), x) <= 0
         THEN <<Head(s)>> \o InsertByTime(Tail(s), x)
         ELSE <<x>> \o s

\* Array.prototype.sort((a, b) => a.time - b.time): stable
RECURSIVE SortByTime(_)
SortByTime(s) ==
    IF s = <<>> THEN <<>>
    ELSE InsertByTime(SortByTime(SubSeq(s, 1, Len(s) - 1)), s[Len(s)])

\* anchors.forEach(a => allPoints.push({measure, beat: 1, time}))
RECURSIVE MeasurePoints(_)
MeasurePoints(s) ==
    IF s = <<>> THEN <<>>
    ELSE <<BeatAnchor(Head(s).measure, 1, Head(s).time)>> \o MeasurePoints(Tail(s))

\* allPoints before the sort: the measure anchors as beat 1, then the beat anchors
AllPoints(as, bs) == MeasurePoints(as) \o bs

\* the scan with time > sorted[i].time in place of time >= sorted[i].time
RECURSIVE ScanMeasuresStrict(_, _, _, _)
ScanMeasuresStrict(sorted, time, i, acc) ==
    IF i > Len(sorted) THEN acc
    ELSE IF time > sorted[i].time
         THEN ScanMeasuresStrict(sorted, time, i + 1,
                  [currentM |-> sorted[i].measure,
                   startT |-> sorted[i].time,
                   finite |-> i + 1 <= Len(sorted),
                   endT |-> IF i + 1 <= Len(sorted) THEN sorted[i + 1].time ELSE 0])
         ELSE acc

\* the scan of the measure branch: i is the loop index, acc the loop variables
RECURSIVE ScanMeasures(_, _, _, _)
ScanMeasures(sorted, time, i, acc) ==
    IF i > Len(sorted) THEN acc
    ELSE IF Geq(time, sorted[i].time)
         THEN ScanMeasures(sorted, time, i + 1,
                  [currentM |-> sorted[i].measure,
                   startT |-> sorted[i].time,
                   finite |-> i + 1 <= Len(sorted),
                   endT |-> IF i + 1 <= Len(sorted) THEN sorted[i + 1].time ELSE 0])
         ELSE acc

\* the scan of the beat branch: cur and nxt are indices into allPoints, nxt = 0 is null
RECURSIVE ScanPoints(_, _, _, _)
ScanPoints(allPoints, time, i, acc) ==
    IF i > Len(allPoints) THEN acc
    ELSE IF Geq(time, allPoints[i].time)
         THEN ScanPoints(allPoints, time, i + 1,
                  [cur |-> i, nxt |-> IF i + 1 <= Len(allPoints) THEN i + 1 ELSE 0])
         ELSE acc

\* a measure branch that takes the first of the anchors tied at the latest
\* time <= t as current, the anchor after it as next, and divides unguarded
MeasureBranchUnguarded(as, time) ==
    LET sorted == SortByTime(as)
        le == {i \in 1..Len(sorted) : sorted[i].time <= time}
    IN  IF le = {}
        THEN [measure |-> 1, beat |-> 1, progress |-> Frac(0, 1),
              isBeatInterpolation |-> FALSE]
        ELSE LET cur == CHOOSE i \in le : \A j \in le :
                            \/ sorted[j].time < sorted[i].time
                            \/ sorted[j].time = sorted[i].time /\ i <= j
             IN  [measure |-> sorted[cur].measure, beat |-> 1,
                  progress |-> IF cur < Len(sorted)
                               THEN Clamp01(Divide(time - sorted[cur].time,
                                            sorted[cur + 1].time - sorted[cur].time))
                               ELSE Frac(0, 1),
                  isBeatInterpolation |-> FALSE]

\* the measure branch of findCurrentPosition; findCurrentMeasure of the page
\* and scroll viewers is the same code without the beat field
MeasureBranch(as, time) ==
    IF Len(as) = 0
    THEN [measure |-> 1, beat |-> 1, progress |-> Frac(0, 1), isBeatInterpolation |-> FALSE]
    ELSE LET sorted == SortByTime(as)
             r == ScanMeasures(sorted, time, 1,
                      [currentM |-> 1, startT |-> 0, finite |-> FALSE, endT |-> 0])
             progress == IF r.finite /\ Gt(r.endT, r.startT)
                         THEN Clamp01(Divide(time - Num(r.startT),
                                             Num(r.endT) - Num(r.startT)))
                         ELSE Frac(0, 1)
         IN  [measure |-> r.currentM, beat |-> 1, progress |-> progress,
              isBeatInterpolation |-> FALSE]

\* the beat branch of findCurrentPosition
BeatBranch(as, bs, time) ==
    LET allPoints == SortByTime(AllPoints(as, bs))
        r == ScanPoints(allPoints, time, 1, [cur |-> 1, nxt |-> 0])
        currentP == allPoints[r.cur]
        duration == IF r.nxt # 0 THEN Minus(allPoints[r.nxt].time, currentP.time)
                    ELSE Frac(0, 1)
        progress == IF r.nxt # 0 /\ Positive(duration)
                    THEN Clamp01(Divide(time - Num(currentP.time), duration.num))
                    ELSE Frac(0, 1)
    IN  [measure |-> currentP.measure, beat |-> currentP.beat, progress |-> progress,
         isBeatInterpolation |-> TRUE]

\* ScrollView's resolver: as and bs are its props anchors and beatAnchors
findCurrentPosition(as, bs, time) ==
    IF Len(bs) = 0 THEN MeasureBranch(as, time) ELSE BeatBranch(as, bs, time)

\* the page and scroll viewers' resolver
findCurrentMeasure(as, time) ==
    LET r == MeasureBranch(as, time)
    IN  [measure |-> r.measure, beat |-> 1, progress |-> r.progress,
         isBeatInterpolation |-> FALSE]

\* the prop without the Level-2 condition
BeatPropAlways == beatAnchors

\* the beatAnchors prop App hands to the views
BeatProp == IF isLevel2Mode THEN beatAnchors ELSE <<>>

----------------------------------------------------------------------------
(* The editor: handlers of App *)

\* useState(4): the subdivision of a new session
DEFAULT_SUBDIVISION == 4

NoProject == [saved |-> FALSE, anchors |-> <<>>, beat_anchors |-> <<>>,
              subdivision |-> 0, is_level2 |-> FALSE]

\* the score view before its mount: no OSMD instance, no loop
InitView ==
    /\ mounted = "no"
    /\ loads = <<>>
    /\ osmdRef = 0
    /\ isLoaded = FALSE
    /\ loopFor = FALSE
    /\ frameRef = 0
    /\ frames = {}

NoDrag == [kind |-> "none", measure |-> 0, beat |-> 0, startTime |-> 0]

\* the staff entries of a rendered measure: an onset on beat 1 and one on
\* beat 3 of a measure 600 px wide
DefaultEntries == <<0, 300>>

\* the render state of a new session: the App's defaults, the refs' initial
\* values, the overlays' inline styles, a paused audio element
InitRender ==
    /\ revealMode = "OFF"
    /\ isLocked = TRUE
    /\ paused = TRUE
    /\ measureCount = MaxMeasure
    /\ cursorX = 0
    /\ scrollLeft = 0
    /\ curtainShown = FALSE
    /\ hidden = {}
    /\ lit = {}
    /\ lastMeasureIndex = 0 - 1
    /\ prevRevealMode = "OFF"
    /\ resizeTimers = 0
    /\ rebuilds = 0
    /\ staffEntries = DefaultEntries
    /\ beatXMap = <<>>
    /\ drag = NoDrag

\* the state of a new session next to the timeline
InitOthers ==
    /\ subdivision = DEFAULT_SUBDIVISION
    /\ audioTime = 0
    /\ project = NoProject
    /\ InitView
    /\ InitRender

Init ==
    /\ anchors = INITIAL_ANCHORS
    /\ beatAnchors = <<>>
    /\ isLevel2Mode = FALSE
    /\ mode = "PLAYBACK"
    /\ last = NoOp
    /\ pos = NoPos
    /\ InitOthers

\* The handlers' effect on the App state; the editor's actions below add the
\* record of the call.

\* handleTap at transport time t; the list grows to cap anchors at most
Tap(t, cap) ==
    /\ mode = "RECORD" => Len(anchors) < cap
    /\ anchors' = handleTap(anchors, mode, t)
    /\ UNCHANGED <<beatAnchors, isLevel2Mode, mode, pos, others>>

\* upsertAnchor(m, t); the list grows to cap anchors at most
Upsert(m, t, cap) ==
    /\ Len(upsertAnchor(anchors, m, t)) <= cap
    /\ anchors' = upsertAnchor(anchors, m, t)
    /\ UNCHANGED <<beatAnchors, isLevel2Mode, mode, pos, others>>

\* handleDelete(m)
Delete(m) ==
    /\ anchors' = handleDelete(anchors, m)
    /\ UNCHANGED <<beatAnchors, isLevel2Mode, mode, pos, others>>

\* handleReset: setAnchors(INITIAL_ANCHORS) and nothing else
Reset ==
    /\ anchors' = INITIAL_ANCHORS
    /\ UNCHANGED <<beatAnchors, isLevel2Mode, mode, pos, others>>

\* toggleMode
FlipMode ==
    /\ mode' = IF mode = "RECORD" THEN "PLAYBACK" ELSE "RECORD"
    /\ UNCHANGED <<anchors, beatAnchors, isLevel2Mode, pos, others>>

\* key A / tap button; the transport time is read from the audio element
HandleTap ==
    \E t \in Times :
        /\ Tap(t, MaxAnchors)
        /\ last' = [op |-> "tap", measure |-> Len(anchors) + 1, time |-> t]

\* drag of a marker, numeric edit in the sidebar
UpsertAnchor ==
    \E m \in Measures, t \in Times :
        /\ Upsert(m, t, MaxAnchors)
        /\ last' = [op |-> "upsert", measure |-> m, time |-> t]

\* "Fix" on a ghost row: upsert at the transport time
HandleRestamp ==
    \E m \in Measures, t \in Times :
        /\ Upsert(m, t, MaxAnchors)
        /\ last' = [op |-> "restamp", measure |-> m, time |-> t]

HandleDelete ==
    \E m \in Measures :
        /\ Delete(m)
        /\ last' = [op |-> "delete", measure |-> m, time |-> 0]

HandleReset ==
    /\ Reset
    /\ last' = [op |-> "reset", measure |-> 0, time |-> 0]

ToggleMode ==
    /\ FlipMode
    /\ last' = [op |-> "toggleMode", measure |-> 0, time |-> 0]

Next ==
    \/ HandleTap
    \/ UpsertAnchor
    \/ HandleRestamp
    \/ HandleDelete
    \/ HandleReset
    \/ ToggleMode

Spec == Init /\ [][Next]_vars

----------------------------------------------------------------------------
(* Properties of the editor, stated for Spec *)

\* number of stored anchors equal to a
Count(s, a) == Cardinality({i \in DOMAIN s : s[i] = a})

\* number of stored anchors for measure m
CountMeasure(s, m) == Cardinality({i \in DOMAIN s : s[i].measure = m})

EditInputs == 1..(MaxMeasure + 1)

\* C1: in every state reachable from the seed by tap, upsert, restamp, delete
\* and reset, the anchor list holds at most one anchor per measure number.
C1_OneAnchorPerMeasure ==
    \A i, j \in DOMAIN anchors :
        anchors[i].measure = anchors[j].measure => i = j

\* C2: handleDelete(1) leaves the anchor list as it is, and an anchor for
\* measure 1 exists in every reachable state.
C2_SeedProtected ==
    /\ \E i \in DOMAIN anchors : anchors[i].measure = 1
    /\ handleDelete(anchors, 1) = anchors

C2_Witness ==
    /\ last.op = "delete"
    /\ last.measure = 1
    /\ Len(anchors) = 3

\* C9: upsertAnchor(m, x) twice gives the same list as once; afterwards exactly
\* one anchor has measure m, its time is x, and the anchors of the other
\* measures are the ones from before (for the list of every reachable state,
\* lists with two anchors for one measure included).  The list after an upsert
\* step is itself a fixed point of that upsert.
C9_UpsertIdempotent ==
    /\ \A m \in EditInputs, x \in Times :
           LET once == upsertAnchor(anchors, m, x)
           IN  /\ upsertAnchor(once, m, x) = once
               /\ CountMeasure(once, m) = 1
               /\ Count(once, Anchor(m, x)) = 1
               /\ \A i \in DOMAIN anchors :
                      anchors[i].measure # m =>
                          Count(once, anchors[i]) = Count(anchors, anchors[i])
               /\ Len(once) = Len(anchors) - CountMeasure(anchors, m) + 1
    /\ last.op \in {"upsert", "restamp"} =>
           /\ upsertAnchor(anchors, last.measure, last.time) = anchors
           /\ CountMeasure(anchors, last.measure) = 1
           /\ Count(anchors, Anchor(last.measure, last.time)) = 1
    /\ LET twice == upsertAnchor(upsertAnchor(INITIAL_ANCHORS, 3, 7), 3, 7)
       IN  twice = <<Anchor(1, 0), Anchor(3, 7)>>

C9_Witness ==
    /\ last.op = "upsert"
    /\ last.measure = 2
    /\ Len(anchors) = 3
    /\ anchors[2] = Anchor(2, last.time)

\* three taps in RECORD mode at transport times 1.0, 2.5 and 4.0 (in tenths of
\* a second), from the seed
TapScenario ==
    handleTap(handleTap(handleTap(INITIAL_ANCHORS, "RECORD", 10), "RECORD", 25),
              "RECORD", 40)

\* C10: a tap in RECORD mode appends exactly one anchor, with measure = number
\* of anchors before the tap + 1 and time = the transport time, and leaves the
\* anchors before it as they were; a tap in PLAYBACK mode leaves the list as it
\* is.  Taps at 1.0, 2.5, 4.0 from the seed give [(1,0),(2,1.0),(3,2.5),(4,4.0)].
C10_TapAppends ==
    [][ /\ last'.op = "tap" =>
            IF mode = "RECORD"
            THEN /\ Len(anchors') = Len(anchors) + 1
                 /\ SubSeq(anchors', 1, Len(anchors)) = anchors
                 /\ anchors'[Len(anchors')] = Anchor(Len(anchors) + 1, last'.time)
            ELSE anchors' = anchors
        /\ TapScenario = <<Anchor(1, 0), Anchor(2, 10), Anchor(3, 25), Anchor(4, 40)>>
      ]_vars

C10_Witness ==
    /\ last.op = "tap"
    /\ mode = "RECORD"
    /\ Len(anchors) = 3
    /\ anchors[3] = Anchor(3, last.time)
    /\ last.time > 0

----------------------------------------------------------------------------
(* The resolver on its own: any stored timeline (a loaded project supplies  *)
(* its anchors and beat anchors as they were saved), any query time.  A    *)
(* saved timeline comes from the editor, which never loses the anchor of   *)
(* measure 1; its anchors may be in any order, share times and repeat a    *)
(* measure.                                                                *)

AnchorValues == {Anchor(m, t) : m \in Measures, t \in Times}
BeatValues == {BeatAnchor(m, b, t) : m \in Measures, b \in Beats, t \in Times}

RECURSIVE SeqsUpTo(_, _)
SeqsUpTo(S, n) ==
    IF n = 0 THEN {<<>>}
    ELSE LET shorter == SeqsUpTo(S, n - 1)
         IN  shorter \cup {Append(s, x) : s \in {q \in shorter : Len(q) = n - 1}, x \in S}

InitResolver ==
    /\ anchors \in {s \in SeqsUpTo(AnchorValues, MaxStored) :
                       \E i \in DOMAIN s : s[i].measure = 1}
    /\ isLevel2Mode \in BOOLEAN
    /\ beatAnchors \in (IF isLevel2Mode THEN SeqsUpTo(BeatValues, 1) ELSE {<<>>})
    /\ mode = "PLAYBACK"
    /\ last = NoOp
    /\ pos = NoPos
    /\ InitOthers

\* a render tick of the scroll view at transport time t
Resolve ==
    \E t \in Times :
        LET r == findCurrentPosition(anchors, BeatProp, t)
        IN  /\ pos' = [by |-> "findCurrentPosition", time |-> t, measure |-> r.measure,
                       beat |-> r.beat, progress |-> r.progress]
            /\ UNCHANGED <<anchors, beatAnchors, isLevel2Mode, mode, last, others>>

NextResolver == Resolve

SpecResolver == InitResolver /\ [][NextResolver]_vars

----------------------------------------------------------------------------
(* Properties of the resolver, stated for SpecResolver *)

\* the control points the resolver works on, in storage order
Points == AllPoints(anchors, BeatProp)

Resolved == pos.by = "findCurrentPosition"

SameKey(p, q) == p.measure = q.measure /\ p.beat = q.beat

KeyLess(p, q) ==
    \/ p.measure < q.measure
    \/ p.measure = q.measure /\ p.beat < q.beat

KeyLeq(p, q) == KeyLess(p, q) \/ SameKey(p, q)

IsZero(f) == f.den > 0 /\ f.num = 0

\* f = n / d, for d > 0
IsRatio(f, n, d) == f.den > 0 /\ f.num * d = n * f.den

\* the index of the point that a stable sort by time puts last
LatestIdx(pts) ==
    CHOOSE i \in DOMAIN pts : \A j \in DOMAIN pts :
        \/ pts[j].time < pts[i].time
        \/ pts[j].time = pts[i].time /\ j <= i

\* the points at or before t, and those among them at the latest such time
AtOrBefore(pts, t) == {i \in DOMAIN pts : pts[i].time <= t}
TiedAtCurrent(pts, t) ==
    {i \in AtOrBefore(pts, t) : \A j \in AtOrBefore(pts, t) : pts[j].time <= pts[i].time}

\* the points after t at the earliest such time
NextAfter(pts, t) ==
    {i \in DOMAIN pts : /\ pts[i].time > t
                        /\ \A j \in DOMAIN pts : pts[j].time > t => pts[i].time <= pts[j].time}

DistinctTimes(pts) ==
    \A i, j \in DOMAIN pts : i # j => pts[i].time # pts[j].time

\* C3: for a query time before every control point the resolver returns the
\* key of a point that is first in time order, with progress 0, in
\* measure-only and in Level-2 mode.
C3_BeforeFirstReturnsFirst ==
    (Resolved /\ Points # <<>> /\ \A i \in DOMAIN Points : pos.time < Points[i].time) =>
        /\ \E i \in DOMAIN Points :
               /\ \A j \in DOMAIN Points : Points[i].time <= Points[j].time
               /\ SameKey(pos, Points[i])
        /\ IsZero(pos.progress)

\* C4: for a query time at or after every control point the resolver returns
\* the key of the point that is last in time order, with progress 0; so does
\* findCurrentMeasure over the measure anchors.
C4_AtOrAfterLastHolds ==
    /\ (Resolved /\ Points # <<>> /\ \A i \in DOMAIN Points : Points[i].time <= pos.time) =>
           /\ SameKey(pos, Points[LatestIdx(Points)])
           /\ IsZero(pos.progress)
    /\ (Resolved /\ anchors # <<>> /\ \A i \in DOMAIN anchors : anchors[i].time <= pos.time) =>
           LET r == findCurrentMeasure(anchors, pos.time)
           IN  /\ r.measure = anchors[LatestIdx(anchors)].measure
               /\ IsZero(r.progress)

C4_Witness ==
    /\ Resolved
    /\ isLevel2Mode
    /\ Len(Points) = 3
    /\ \A i \in DOMAIN Points : Points[i].time <= pos.time
    /\ \E i \in DOMAIN Points : Points[i].time < pos.time
    /\ pos.measure = 2
    /\ pos.beat = 2

\* the timelines of the interpolation examples: seconds, and tenths of a second
TwoAnchors == <<Anchor(1, 0), Anchor(2, 10)>>
FourAnchors == <<Anchor(1, 0), Anchor(2, 10), Anchor(3, 25), Anchor(4, 40)>>

\* C5: with control points at pairwise different times (a strictly increasing
\* timeline), cur the last point at or before t and next the first point after
\* t, the resolver returns cur's key and progress (t - cur.time) / (next.time -
\* cur.time); findCurrentMeasure does the same over the measure anchors.
\* Anchors (1,0),(2,10): resolve(5) = measure 1, 1/2; resolve(0) = measure 1, 0;
\* resolve(10) = measure 2, 0.  Anchors (1,0),(2,1.0),(3,2.5),(4,4.0):
\* resolve(3.0) = measure 3, 1/3.
C5_Interpolates ==
    /\ (/\ Resolved
        /\ DistinctTimes(Points)
        /\ AtOrBefore(Points, pos.time) # {}
        /\ NextAfter(Points, pos.time) # {}) =>
           LET cur == Points[CHOOSE i \in TiedAtCurrent(Points, pos.time) : TRUE]
               nxt == Points[CHOOSE i \in NextAfter(Points, pos.time) : TRUE]
           IN  /\ SameKey(pos, cur)
               /\ IsRatio(pos.progress, pos.time - cur.time, nxt.time - cur.time)
    /\ (/\ Resolved
        /\ DistinctTimes(anchors)
        /\ AtOrBefore(anchors, pos.time) # {}
        /\ NextAfter(anchors, pos.time) # {}) =>
           LET cur == anchors[CHOOSE i \in TiedAtCurrent(anchors, pos.time) : TRUE]
               nxt == anchors[CHOOSE i \in NextAfter(anchors, pos.time) : TRUE]
               r == findCurrentMeasure(anchors, pos.time)
           IN  /\ r.measure = cur.measure
               /\ IsRatio(r.progress, pos.time - cur.time, nxt.time - cur.time)
    /\ LET r == findCurrentPosition(TwoAnchors, <<>>, 5)
       IN  r.measure = 1 /\ IsRatio(r.progress, 1, 2)
    /\ LET r == findCurrentPosition(TwoAnchors, <<>>, 0)
       IN  r.measure = 1 /\ IsZero(r.progress)
    /\ LET r == findCurrentPosition(TwoAnchors, <<>>, 10)
       IN  r.measure = 2 /\ IsZero(r.progress)
    /\ LET r == findCurrentPosition(FourAnchors, <<>>, 30)
       IN  r.measure = 3 /\ IsRatio(r.progress, 1, 3)

C5_Witness ==
    /\ Resolved
    /\ DistinctTimes(Points)
    /\ Len(Points) = 2
    /\ NextAfter(Points, pos.time) # {}
    /\ pos.time = 1
    /\ IsRatio(pos.progress, 1, 2)
    /\ pos.measure = 2

\* the timeline of the degenerate-interval example
EqualTimes == <<Anchor(1, 5), Anchor(2, 5)>>

\* C6: for every timeline (equal and out-of-order times included) and every
\* query time the progress is a finite value in [0, 1]; it is other than 0 only
\* when the query time lies in an interval of positive duration between a
\* control point at or before it and one after it; anchors (1,5),(2,5) give
\* progress 0 at every time.
C6_ProgressSafe ==
    /\ Resolved =>
           /\ pos.progress.den > 0
           /\ 0 <= pos.progress.num
           /\ pos.progress.num <= pos.progress.den
           /\ pos.progress.num # 0 =>
                  /\ AtOrBefore(Points, pos.time) # {}
                  /\ NextAfter(Points, pos.time) # {}
    /\ \A t \in Times :
           LET r == findCurrentMeasure(anchors, t)
           IN  r.progress.den > 0 /\ 0 <= r.progress.num /\ r.progress.num <= r.progress.den
    /\ \A t \in 0..10 :
           /\ IsZero(findCurrentPosition(EqualTimes, <<>>, t).progress)
           /\ IsZero(findCurrentMeasure(EqualTimes, t).progress)

C6_Witness ==
    /\ Resolved
    /\ Len(Points) = 3
    /\ \E i, j \in DOMAIN Points :
           /\ i < j
           /\ Points[i].time = Points[j].time
           /\ Points[i].time <= pos.time
    /\ \E i, j \in DOMAIN Points : i < j /\ Points[j].time < Points[i].time
    /\ IsZero(pos.progress)

\* C7: when several control points share the latest time at or before the
\* query time, the resolver returns the lowest (measure, beat) key among them,
\* whatever the storage order.
C7_TieLowestKey ==
    (Resolved /\ Cardinality(TiedAtCurrent(Points, pos.time)) >= 2) =>
        /\ \E i \in TiedAtCurrent(Points, pos.time) : SameKey(pos, Points[i])
        /\ \A i \in TiedAtCurrent(Points, pos.time) : KeyLeq(pos, Points[i])

\* the control points have different keys and their times grow with the key
IncreasingInKeyOrder(pts) ==
    \A i, j \in DOMAIN pts :
        i # j => /\ ~SameKey(pts[i], pts[j])
                 /\ KeyLess(pts[i], pts[j]) => pts[i].time < pts[j].time

\* C8: on a timeline whose times increase strictly in (measure, beat) order,
\* the key resolved for an earlier time is never greater than the key resolved
\* for a later time.
C8_Monotonic ==
    (Resolved /\ IncreasingInKeyOrder(Points)) =>
        \A t \in Times :
            LET r == findCurrentPosition(anchors, BeatProp, t)
            IN  /\ t < pos.time => KeyLeq(r, pos)
                /\ pos.time < t => KeyLeq(pos, r)

C8_Witness ==
    /\ Resolved
    /\ IncreasingInKeyOrder(Points)
    /\ Len(Points) = 3
    /\ isLevel2Mode
    /\ pos.time = MaxTime
    /\ pos.measure = 2
    /\ \E t \in Times :
           /\ t < pos.time
           /\ KeyLess(findCurrentPosition(anchors, BeatProp, t), pos)

----------------------------------------------------------------------------
(* Beat anchors: the generator and the beat editor *)

\* the offset taken for beat b + 1
BeatTimeOffByOne(currentA, nextA, beatsToGenerate, b) ==
    currentA.time + ((nextA.time - currentA.time) * b) \div beatsToGenerate

\* currentA.time + (timePerBeat * (b - 1)) with timePerBeat = duration /
\* beatsToGenerate, in ticks; the beat editor's times lie on a grid that makes
\* the division exact
BeatTime(currentA, nextA, beatsToGenerate, b) ==
    IF IsNaN(currentA.time) \/ IsNaN(nextA.time) THEN NaN
    ELSE Num(currentA.time)
            + ((Num(nextA.time) - Num(currentA.time)) * (b - 1)) \div beatsToGenerate

\* the inner loop of generateBeatAnchors from beat b on
RECURSIVE BeatsOfPair(_, _, _, _)
BeatsOfPair(currentA, nextA, beatsToGenerate, b) ==
    IF b > beatsToGenerate THEN <<>>
    ELSE <<BeatAnchor(currentA.measure, b, BeatTime(currentA, nextA, beatsToGenerate, b))>>
         \o BeatsOfPair(currentA, nextA, beatsToGenerate, b + 1)

\* the outer loop with an inner loop that starts at beat 1
RECURSIVE BeatsFromBeatOne(_, _, _)
BeatsFromBeatOne(sortedAnchors, beatsToGenerate, i) ==
    IF i > Len(sortedAnchors) THEN <<>>
    ELSE (IF i + 1 <= Len(sortedAnchors)
          THEN BeatsOfPair(sortedAnchors[i], sortedAnchors[i + 1], beatsToGenerate, 1)
          ELSE <<>>)
         \o BeatsFromBeatOne(sortedAnchors, beatsToGenerate, i + 1)

\* the outer loop of generateBeatAnchors from index i on (1-based)
RECURSIVE BeatsOfList(_, _, _)
BeatsOfList(sortedAnchors, beatsToGenerate, i) ==
    IF i > Len(sortedAnchors) THEN <<>>
    ELSE (IF i + 1 <= Len(sortedAnchors)
          THEN BeatsOfPair(sortedAnchors[i], sortedAnchors[i + 1], beatsToGenerate, 2)
          ELSE <<>>)
         \o BeatsOfList(sortedAnchors, beatsToGenerate, i + 1)

\* generateBeatAnchors: prev is the beat-anchor list before the call
generateBeatAnchors(as, prev, n) ==
    IF Len(as) < 2 THEN prev
    ELSE BeatsOfList(SortByMeasure(as), n, 1)

\* prev.filter(b => !(b.measure === measure && b.beat === beat))
RECURSIVE FilterOutBeat(_, _, _)
FilterOutBeat(s, measure, beat) ==
    IF s = <<>> THEN <<>>
    ELSE IF ~(Head(s).measure = measure /\ Head(s).beat = beat)
         THEN <<Head(s)>> \o FilterOutBeat(Tail(s), measure, beat)
         ELSE FilterOutBeat(Tail(s), measure, beat)

\* the comparator of upsertBeatAnchor: by measure, then by beat
CompareBeat(a, b) ==
    IF a.measure # b.measure THEN a.measure - b.measure ELSE a.beat - b.beat

RECURSIVE InsertByBeat(_, _)
InsertByBeat(s, x) ==
    IF s = <<>> THEN <<x>>
    ELSE IF CompareBeat(Head(s), x) <= 0
         THEN <<Head(s)>> \o InsertByBeat(Tail(s), x)
         ELSE <<x>> \o s

\* newBeats.sort(...): stable
RECURSIVE SortByBeat(_)
SortByBeat(s) ==
    IF s = <<>> THEN <<>>
    ELSE InsertByBeat(SortByBeat(SubSeq(s, 1, Len(s) - 1)), s[Len(s)])

\* the state updater of upsertBeatAnchor
upsertBeatAnchor(prev, measure, beat, time) ==
    SortByBeat(Append(FilterOutBeat(prev, measure, beat), BeatAnchor(measure, beat, time)))

\* parseInt(e.target.value) || 4: the subdivision input of the sidebar, for a
\* value that parses to the integer v
parseSubdivision(v) == IF v = 0 THEN DEFAULT_SUBDIVISION ELSE v

------------------------------------------------------------

\* what the subdivision input parses to; 0 stands for an input that is zero or
\* not a number
SubdivisionInputs == {0, 1, 2, DEFAULT_SUBDIVISION}

Subdivisions == {parseSubdivision(v) : v \in SubdivisionInputs}

\* The handlers' effect on the App state, as for the anchor editor.  The
\* sidebar shows the subdivision input, the "Regenerate" button and the beat
\* rows in Level-2 mode only, and the score shows beat markers only then.

\* generateBeatAnchors
Generate ==
    /\ isLevel2Mode
    /\ beatAnchors' = generateBeatAnchors(anchors, beatAnchors, subdivision)
    /\ UNCHANGED <<anchors, isLevel2Mode, mode, subdivision, audioTime, project,
                   viewVars, renderVars, pos>>

\* upsertBeatAnchor(b.measure, b.beat, t) for the stored beat anchor b: a drag
\* of its marker or an edit of its row
UpsertBeat(b, t) ==
    /\ isLevel2Mode
    /\ beatAnchors' = upsertBeatAnchor(beatAnchors, b.measure, b.beat, t)
    /\ UNCHANGED <<anchors, isLevel2Mode, mode, subdivision, audioTime, project,
                   viewVars, renderVars, pos>>

\* toggleLevel2
FlipLevel2 ==
    /\ isLevel2Mode' = ~isLevel2Mode
    /\ UNCHANGED <<anchors, beatAnchors, mode, subdivision, audioTime, project,
                   viewVars, renderVars, pos>>

\* setSubdivision(parseInt(e.target.value) || 4)
SetSubdivision(v) ==
    /\ isLevel2Mode
    /\ subdivision' = parseSubdivision(v)
    /\ UNCHANGED <<anchors, beatAnchors, isLevel2Mode, mode, audioTime, project,
                   viewVars, renderVars, pos>>

----------------------------------------------------------------------------
(* The generator on its own: any stored measure anchors on the grid, any    *)
(* subdivision, Level-2 mode on                                            *)

MaxSpan == 2        \* the generator's anchor times are the grid points 0..MaxSpan
MaxGenerated == 3   \* longest measure-anchor list handed to the generator

\* times on a grid that every subdivision of the model divides
GridTimes == {DEFAULT_SUBDIVISION * k : k \in 0..MaxSpan}

GridAnchorValues == {Anchor(m, t) : m \in Measures, t \in GridTimes}

InitGenerate ==
    /\ anchors \in {s \in SeqsUpTo(GridAnchorValues, MaxGenerated) :
                       \E i \in DOMAIN s : s[i].measure = 1}
    /\ beatAnchors = <<>>
    /\ isLevel2Mode = TRUE
    /\ mode = "RECORD"
    /\ subdivision \in Subdivisions
    /\ audioTime = 0
    /\ project = NoProject
    /\ InitView
    /\ InitRender
    /\ last = NoOp
    /\ pos = NoPos

GenerateBeatAnchors ==
    /\ Generate
    /\ last' = [op |-> "generate", measure |-> 0, time |-> 0]

NextGenerate == GenerateBeatAnchors

SpecGenerate == InitGenerate /\ [][NextGenerate]_vars

----------------------------------------------------------------------------
(* Properties of the generator, stated for SpecGenerate *)

\* C11: generateBeatAnchors with subdivision n emits, for every pair (a, a')
\* of neighbouring measure anchors in measure-number order, exactly the beat
\* anchors (a.measure, b, a.time + (b-1) * (a'.time - a.time) / n) for
\* b = 2..n, pair after pair, and none for the last measure anchor; n = 4 with
\* measure 1 at t=0 and measure 2 at t=8 gives beats 2, 3, 4 at t = 2, 4, 6.
C11_GeneratorFormula ==
    [][ /\ (GenerateBeatAnchors /\ Len(anchors) >= 2) =>
            LET S == SortByMeasure(anchors)
                n == subdivision
                perPair == IF n >= 2 THEN n - 1 ELSE 0
            IN  /\ Len(beatAnchors') = (Len(S) - 1) * perPair
                /\ \A i \in 1..(Len(S) - 1), b \in 2..n :
                       LET x == beatAnchors'[(i - 1) * perPair + b - 1]
                       IN  /\ x.measure = S[i].measure
                           /\ x.beat = b
                           /\ n * (x.time - S[i].time)
                                  = (b - 1) * (S[i + 1].time - S[i].time)
        /\ generateBeatAnchors(<<Anchor(1, 0), Anchor(2, 8)>>, <<>>, 4)
               = <<BeatAnchor(1, 2, 2), BeatAnchor(1, 3, 4), BeatAnchor(1, 4, 6)>>
      ]_vars

C11_Witness ==
    /\ last.op = "generate"
    /\ Len(anchors) = 3
    /\ subdivision = 4
    /\ Len(beatAnchors) = 6
    /\ beatAnchors[1].time # beatAnchors[2].time
    /\ beatAnchors[4].measure # beatAnchors[1].measure

----------------------------------------------------------------------------
(* The beat editor: from the seed, the handlers of App that change the      *)
(* anchors, the beat anchors, the subdivision and the Level-2 flag.  The   *)
(* record of the last call is not kept here.                               *)

MaxBeatEdited == 2    \* longest measure-anchor list the beat editor builds
MaxEdited == 4        \* the same for the editor of the long lists

\* the transport times and marker positions of the beat editor, on the grid
EditorTimes == {0, DEFAULT_SUBDIVISION}

\* where a beat marker is dragged to, or what its row is edited to
DragTimes == {DEFAULT_SUBDIVISION}

BeatsTap(cap) ==
    \E t \in EditorTimes : Tap(t, cap) /\ UNCHANGED last

BeatsUpsertAnchor(cap) ==
    \E m \in Measures, t \in EditorTimes : Upsert(m, t, cap) /\ UNCHANGED last

BeatsDelete ==
    \E m \in Measures : Delete(m) /\ UNCHANGED last

BeatsReset == Reset /\ UNCHANGED last

BeatsToggleMode == FlipMode /\ UNCHANGED last

BeatsGenerate == Generate /\ UNCHANGED last

BeatsUpsertBeat ==
    \E i \in DOMAIN beatAnchors, t \in DragTimes :
        UpsertBeat(beatAnchors[i], t) /\ UNCHANGED last

BeatsToggleLevel2 == FlipLevel2 /\ UNCHANGED last

BeatsSetSubdivision ==
    \E v \in SubdivisionInputs : SetSubdivision(v) /\ UNCHANGED last

NextBeats ==
    \/ BeatsTap(MaxBeatEdited)
    \/ BeatsUpsertAnchor(MaxBeatEdited)
    \/ BeatsDelete
    \/ BeatsReset
    \/ BeatsToggleMode
    \/ BeatsGenerate
    \/ BeatsUpsertBeat
    \/ BeatsToggleLevel2
    \/ BeatsSetSubdivision

SpecBeats == Init /\ [][NextBeats]_vars

\* the editor of the long lists: room for four measure anchors, the default
\* subdivision, beat anchors as the generator leaves them
NextLongLists ==
    \/ BeatsTap(MaxEdited)
    \/ BeatsUpsertAnchor(MaxEdited)
    \/ BeatsDelete
    \/ BeatsReset
    \/ BeatsToggleMode
    \/ BeatsGenerate
    \/ BeatsToggleLevel2

SpecLongLists == Init /\ [][NextLongLists]_vars

----------------------------------------------------------------------------
(* Properties of the beat editor, stated for SpecBeats and SpecLongLists *)

\* C12: in every state of the beat editor, what generateBeatAnchors leaves
\* when it is invoked there is exactly what the generator produces from the
\* current measure anchors and subdivision out of an empty beat set (none for
\* a list of one anchor): nothing from an earlier generation or from an
\* upsertBeatAnchor survives.
C12_GenerateReplaces ==
    generateBeatAnchors(anchors, beatAnchors, subdivision)
        = BeatsOfList(SortByMeasure(anchors), subdivision, 1)

\* C13: the beat anchors hold at most one beat anchor per (measure, beat).
C13_OneBeatPerKey ==
    \A i, j \in DOMAIN beatAnchors :
        (/\ beatAnchors[i].measure = beatAnchors[j].measure
         /\ beatAnchors[i].beat = beatAnchors[j].beat) => i = j

\* C14: no stored beat anchor has beat = 1; the only points with beat 1 that
\* the resolver works on are the ones it makes from the measure anchors.
C14_NoStoredBeatOne ==
    /\ \A i \in DOMAIN beatAnchors : beatAnchors[i].beat # 1
    /\ LET allPoints == AllPoints(anchors, beatAnchors)
       IN  \A i \in DOMAIN allPoints : allPoints[i].beat = 1 <=> i <= Len(anchors)

\* generated with subdivision 4 between t = 0 and t = 4, then beat 2 dragged
\* to t = 4
C14_Witness ==
    /\ anchors = <<Anchor(1, 0), Anchor(2, 4)>>
    /\ beatAnchors = <<BeatAnchor(1, 2, 4), BeatAnchor(1, 3, 2), BeatAnchor(1, 4, 3)>>

\* C15: after handleReset the measure anchors are the seed alone and there is
\* no beat anchor.
C15_ResetClearsAll ==
    [][ BeatsReset => (anchors' = INITIAL_ANCHORS /\ beatAnchors' = <<>>) ]_vars

----------------------------------------------------------------------------
(* Click to seek: a click on the score of a stored timeline *)

\* Array.prototype.reverse
Reverse(s) == [i \in 1..Len(s) |-> s[Len(s) + 1 - i]]

\* Array.prototype.find(a => a.measure <= measureNumber) as an index, 0 for
\* undefined
FindAtOrBefore(s, measureNumber) ==
    LET hits == {i \in DOMAIN s : s[i].measure <= measureNumber}
    IN  IF hits = {} THEN 0 ELSE CHOOSE i \in hits : \A j \in hits : i <= j

\* the click handler with find on the ascending list
ClickFindsFirst(as, clickedMeasureIndex, cur) ==
    IF clickedMeasureIndex = 0 - 1 THEN cur
    ELSE LET sortedAnchors == SortByMeasure(as)
             target == FindAtOrBefore(sortedAnchors, clickedMeasureIndex + 1)
         IN  IF target # 0 THEN sortedAnchors[target].time ELSE cur

\* handleScoreClick after the hit test: clickedMeasureIndex is the index of the
\* first measure whose box holds the click, -1 when none does (the handler
\* returns before the hit test while no score is rendered, which is a click
\* that hits nothing); cur is the audio element's currentTime; the result is
\* its currentTime afterwards
handleScoreClick(as, clickedMeasureIndex, cur) ==
    IF clickedMeasureIndex = 0 - 1 THEN cur
    ELSE LET sortedAnchors == Reverse(SortByMeasure(as))
             target == FindAtOrBefore(sortedAnchors, clickedMeasureIndex + 1)
         IN  IF target # 0 THEN sortedAnchors[target].time ELSE cur

\* the score has one measure more than the editor's inputs name
MeasureIndexes == (0 - 1)..MaxMeasure

HandleScoreClick ==
    \E clickedMeasureIndex \in MeasureIndexes :
        /\ audioTime' = handleScoreClick(anchors, clickedMeasureIndex, audioTime)
        /\ last' = [op |-> "click", measure |-> clickedMeasureIndex + 1, time |-> audioTime]
        /\ UNCHANGED <<anchors, beatAnchors, isLevel2Mode, mode, subdivision, project,
                       viewVars, renderVars, pos>>

NextSeek == HandleScoreClick

SpecSeek == InitResolver /\ [][NextSeek]_vars

\* C16: a click that hit-tests into measure k seeks to the time of an anchor
\* with the largest measure number <= k, and a click with no anchor at or
\* before k (or on no measure) leaves the transport where it is.  With anchors
\* for measures 1 and 5 only, a click in measure 3 seeks to measure 1's time.
C16_SeekNearestPreceding ==
    [][ /\ last'.op = "click" =>
            LET k == last'.measure
                before == {i \in DOMAIN anchors : anchors[i].measure <= k}
            IN  IF k >= 1 /\ before # {}
                THEN \E i \in before :
                         /\ \A j \in before : anchors[j].measure <= anchors[i].measure
                         /\ audioTime' = anchors[i].time
                ELSE audioTime' = audioTime
        /\ handleScoreClick(<<Anchor(1, 2), Anchor(5, 9)>>, 2, 0) = 2
        /\ handleScoreClick(<<Anchor(5, 9)>>, 2, 7) = 7
      ]_vars

\* a click in measure 3, which has no anchor, took the transport to measure 2
C16_Witness ==
    /\ last.op = "click"
    /\ last.measure = 3
    /\ anchors = <<Anchor(1, 1), Anchor(2, 2)>>
    /\ audioTime = 2

----------------------------------------------------------------------------
(* Persistence: save and load of the timeline *)

\* a number on its way through JSON.stringify and JSON.parse: the project
\* service hands the row to the backend client, which sends it as JSON; a
\* finite number comes back as it was, NaN is written as null
JsonNumber(v) == IF IsNaN(v) THEN null ELSE v

JsonAnchors(s) ==
    [i \in DOMAIN s |-> Anchor(s[i].measure, JsonNumber(s[i].time))]

JsonBeatAnchors(s) ==
    [i \in DOMAIN s |-> BeatAnchor(s[i].measure, s[i].beat, JsonNumber(s[i].time))]

\* the row that projectService.updateProject and saveProject write, as a
\* later getProjects reads it (beatAnchors || [], subdivision ?? 4 and
\* isLevel2 ?? false change nothing for the values App passes)
updateProject(as, bs, sub, l2) ==
    [saved |-> TRUE, anchors |-> JsonAnchors(as), beat_anchors |-> JsonBeatAnchors(bs),
     subdivision |-> sub, is_level2 |-> l2]

\* what loadProjectState sets the timeline to
loadProjectState(row) ==
    [anchors |-> row.anchors, beatAnchors |-> row.beat_anchors,
     subdivision |-> row.subdivision, isLevel2Mode |-> row.is_level2]

\* a time as the editor can store it: the time inputs of the sidebar pass
\* parseFloat(e.target.value) on, which is NaN once the input is emptied
StoredTimes == Times \cup {NaN}

\* measure 1's time input is disabled, every other row's is not
PersistAnchorValues ==
    {Anchor(m, t) : m \in Measures, t \in Times}
        \cup {Anchor(m, NaN) : m \in Measures \ {1}}

PersistBeatValues == {BeatAnchor(m, b, t) : m \in Measures, b \in Beats, t \in StoredTimes}

\* a session with a timeline as the editor can leave it
InitPersist ==
    /\ anchors \in {s \in SeqsUpTo(PersistAnchorValues, MaxStored) :
                       \E i \in DOMAIN s : s[i].measure = 1}
    /\ beatAnchors \in SeqsUpTo(PersistBeatValues, 1)
    /\ isLevel2Mode \in BOOLEAN
    /\ mode = "RECORD"
    /\ subdivision \in Subdivisions
    /\ audioTime = 0
    /\ project = NoProject
    /\ InitView
    /\ InitRender
    /\ last = NoOp
    /\ pos = NoPos

\* "Save as": a new project row from the session
HandleSaveAs ==
    /\ project' = updateProject(anchors, beatAnchors, subdivision, isLevel2Mode)
    /\ last' = [op |-> "saveAs", measure |-> 0, time |-> 0]
    /\ UNCHANGED <<anchors, beatAnchors, isLevel2Mode, mode, subdivision, audioTime,
                   viewVars, renderVars, pos>>

\* "Save": only with a current project
HandleSave ==
    /\ project.saved
    /\ project' = updateProject(anchors, beatAnchors, subdivision, isLevel2Mode)
    /\ last' = [op |-> "save", measure |-> 0, time |-> 0]
    /\ UNCHANGED <<anchors, beatAnchors, isLevel2Mode, mode, subdivision, audioTime,
                   viewVars, renderVars, pos>>

\* load of the saved project
LoadProjectState ==
    /\ project.saved
    /\ LET loaded == loadProjectState(project)
       IN  /\ anchors' = loaded.anchors
           /\ beatAnchors' = loaded.beatAnchors
           /\ subdivision' = loaded.subdivision
           /\ isLevel2Mode' = loaded.isLevel2Mode
    /\ mode' = "RECORD"
    /\ audioTime' = 0
    /\ last' = [op |-> "load", measure |-> 0, time |-> 0]
    /\ UNCHANGED <<project, viewVars, renderVars, pos>>

NextPersist ==
    \/ HandleSaveAs
    \/ HandleSave
    \/ LoadProjectState

SpecPersist == InitPersist /\ [][NextPersist]_vars

\* C17: the timeline that loadProjectState makes of a row just saved resolves
\* every query time as the timeline that was saved does.
C17_RoundTrip ==
    [][ last'.op \in {"save", "saveAs"} =>
            LET loaded == loadProjectState(project')
                loadedBeatProp == IF loaded.isLevel2Mode THEN loaded.beatAnchors ELSE <<>>
            IN  \A t \in Times :
                    findCurrentPosition(loaded.anchors, loadedBeatProp, t)
                        = findCurrentPosition(anchors, BeatProp, t) ]_vars

----------------------------------------------------------------------------
(* Level-2 mode off and on: a stored timeline with beat anchors, loaded    *)
(* with Level-2 mode on, the toggle and the render tick                    *)

InitLevel2 ==
    /\ anchors \in {s \in SeqsUpTo(AnchorValues, MaxStored) :
                       \E i \in DOMAIN s : s[i].measure = 1}
    /\ beatAnchors \in SeqsUpTo(BeatValues, 1) \ {<<>>}
    /\ isLevel2Mode = TRUE
    /\ mode = "RECORD"
    /\ last = NoOp
    /\ pos = NoPos
    /\ InitOthers

NextLevel2 ==
    \/ BeatsToggleLevel2
    \/ Resolve

SpecLevel2 == InitLevel2 /\ [][NextLevel2]_vars

\* C18: a toggle of Level-2 mode leaves the stored beat anchors as they are,
\* and a render tick while Level-2 mode is off returns beat 1 with the measure
\* and progress of the measure-only resolver over the measure anchors.
C18_Level2OffKeepsBeats ==
    [][ /\ isLevel2Mode' # isLevel2Mode =>
               (beatAnchors' = beatAnchors /\ anchors' = anchors)
        /\ (~isLevel2Mode /\ pos' # pos) =>
               LET r == findCurrentMeasure(anchors, pos'.time)
               IN  /\ pos'.beat = 1
                   /\ pos'.measure = r.measure
                   /\ pos'.progress = r.progress ]_vars

\* Level-2 mode was switched off with a beat anchor stored, and the tick
\* returned beat 1 where the beat anchor would have been the answer
C18_Witness ==
    /\ ~isLevel2Mode
    /\ beatAnchors # <<>>
    /\ Resolved
    /\ pos.beat = 1
    /\ findCurrentPosition(anchors, beatAnchors, pos.time).beat # 1

----------------------------------------------------------------------------
(* The render tick of ScrollView: updateCursorPosition.  Lengths are in px; *)
(* every rendered measure is MeasureWidth wide and measure 1 starts at 0;   *)
(* note timestamps are in hundredths of a measure.                          *)

MeasureWidth == 600   \* (BorderRight - BorderLeft) * unitInPixels of a measure
ViewportWidth == 500  \* scrollContainerRef.current.clientWidth
BeatsInMeasure == 4   \* ActiveTimeSignature.Numerator of every measure
NoteStamps == {0, 50} \* NoteData.timestamp of the notes of a measure
SLACK == 250          \* the camera lock gives way at this distance
SNAP == 50            \* a measure change scrolls from this distance on

Abs(x) == IF x < 0 THEN 0 - x ELSE x

\* containerWidth * cursorPosition with App's cursorPosition of 0.2
CursorOffset == ViewportWidth \div 5

MeasureLeft(m) == (m - 1) * MeasureWidth

\* beatXMapRef.current.get(m).get(b)
BeatX(m, b) == beatXMap[m][b]

\* the staves.forEach / staffEntries.forEach of one beat from entry i on:
\* an entry closer to linearX than 0.4 * mWidth / numerator replaces bestX
RECURSIVE ScanEntries(_, _, _, _)
ScanEntries(entryXs, linearX, i, bestX) ==
    IF i > Len(entryXs) THEN bestX
    ELSE ScanEntries(entryXs, linearX, i + 1,
                     IF Abs(entryXs[i] - linearX) * BeatsInMeasure * 10 < MeasureWidth * 4
                     THEN entryXs[i] ELSE bestX)

\* beatPositions.get(b) of measure m as calculateNoteMap builds it
BeatPosition(entries, m, b) ==
    LET linearX == MeasureLeft(m) + (MeasureWidth * (b - 1)) \div BeatsInMeasure
        entryXs == [i \in DOMAIN entries |-> MeasureLeft(m) + entries[i]]
    IN  ScanEntries(entryXs, linearX, 1, linearX)

\* newBeatXMap of calculateNoteMap for a score of count measures
calculateNoteMap(count, entries) ==
    [m \in 1..count |-> [b \in 1..BeatsInMeasure |-> BeatPosition(entries, m, b)]]

\* noteMap.current.get(m): the notes of measure m as <<measure, timestamp>>
NotesOf(m) == IF m \in 1..measureCount THEN {<<m, ts>> : ts \in NoteStamps} ELSE {}

\* measureContentMap.current.get(m): the elements of measure m as <<measure, left>>
ElementsOf(m) ==
    IF m \in 1..measureCount
    THEN {<<m, MeasureLeft(m) + (MeasureWidth * ts) \div 100>> : ts \in NoteStamps}
    ELSE {}

AllElements == UNION {ElementsOf(m) : m \in 1..measureCount}

\* the browser keeps scrollLeft within the scroll range
MaxScrollLeft ==
    IF measureCount * MeasureWidth > ViewportWidth
    THEN measureCount * MeasureWidth - ViewportWidth ELSE 0

ClampScroll(x) == IF x < 0 THEN 0 ELSE IF x > MaxScrollLeft THEN MaxScrollLeft ELSE x

\* nextP of findCurrentPosition's beat branch, beat 0 for null
NextPoint(as, bs, time) ==
    LET allPoints == SortByTime(AllPoints(as, bs))
        r == ScanPoints(allPoints, time, 1, [cur |-> 1, nxt |-> 0])
    IN  IF r.nxt # 0 THEN allPoints[r.nxt] ELSE BeatAnchor(0, 0, 0)

\* a range test that lets every index through
AnyIndex(currentMeasureIndex) == TRUE

\* the tick goes on: !(currentMeasureIndex >= measureList.length), and
\* measureList[currentMeasureIndex] is defined
InMeasureList(currentMeasureIndex) ==
    currentMeasureIndex >= 0 /\ currentMeasureIndex < measureCount

\* "2. Calculate Cursor X"
CursorXOf(posData, nextP) ==
    LET measure == posData.measure
        num == posData.progress.num
        den == posData.progress.den
    IN  IF posData.isBeatInterpolation /\ measure \in DOMAIN beatXMap
        THEN LET startX == IF posData.beat \in 1..BeatsInMeasure
                           THEN BeatX(measure, posData.beat)
                           ELSE MeasureLeft(measure)
                 nextX == IF nextP.beat \in 1..BeatsInMeasure
                          THEN BeatX(measure, nextP.beat) ELSE 0
                 endX == IF nextP.measure = measure /\ nextP.beat # 0
                         THEN (IF nextX # 0 THEN nextX ELSE startX)
                         ELSE MeasureLeft(measure) + MeasureWidth
             IN  startX + ((endX - startX) * num) \div den
        ELSE MeasureLeft(measure) + (MeasureWidth * num) \div den

\* a camera that follows the cursor in every tick
ScrollAlwaysFollows(locked, isPlaying, current, target, measureChanged) ==
    ClampScroll(target)

\* "[Scrolling Logic]": the scroll offset after the tick; scrollTo's smooth
\* scroll is taken at its end
ScrollAfterTick(locked, isPlaying, current, target, measureChanged) ==
    LET diff == Abs(current - target)
    IN  IF locked /\ isPlaying
        THEN IF measureChanged /\ diff > SNAP THEN ClampScroll(target)
             ELSE IF diff < SLACK THEN ClampScroll(target)
             ELSE current
        ELSE IF measureChanged THEN ClampScroll(target) ELSE current

\* updateMeasureVisibility(currentMeasure) on the set of hidden elements
updateMeasureVisibility(reveal, hid, currentMeasure) ==
    IF reveal # "NOTE" THEN hid
    ELSE (hid \ {e \in AllElements : e[1] < currentMeasure})
            \cup {e \in AllElements : e[1] > currentMeasure}

\* the NOTE branch of the tick: the sweep on a measure change, then the
\* elements of the current measure right of the cursor are hidden
RevealAfterTick(hid, measure, x) ==
    IF revealMode # "NOTE" THEN hid
    ELSE LET swept == IF measure - 1 # lastMeasureIndex \/ lastMeasureIndex = 0 - 1
                      THEN updateMeasureVisibility(revealMode, hid, measure)
                      ELSE hid
         IN  (swept \ ElementsOf(measure))
                \cup {e \in ElementsOf(measure) : e[2] > x + 2}

\* isActive of a note at globalMeasureProgress n/d
IsActive(ts, n, d) == n * 100 <= (ts + 1) * d /\ n * 100 >= (ts - 4) * d

\* "[Karaoke Coloring]": the highlighted notes after the tick
LitAfterTick(posData) ==
    LET measure == posData.measure
        beatMode == posData.isBeatInterpolation /\ measure \in DOMAIN beatXMap
        n == IF beatMode
             THEN (posData.beat - 1) * posData.progress.den + posData.progress.num
             ELSE posData.progress.num
        d == IF beatMode THEN posData.progress.den * BeatsInMeasure
             ELSE posData.progress.den
    IN  IF NotesOf(measure) # {} /\ mode = "PLAYBACK"
        THEN (lit \ NotesOf(measure))
                \cup {note \in NotesOf(measure) : IsActive(note[2], n, d)}
        ELSE lit

\* updateCursorPosition(time): the early returns leave everything as it is;
\* the function the loop calls was made with the isLoaded of loopFor
updateCursorPosition(time) ==
    LET posData == findCurrentPosition(anchors, BeatProp, time)
        nextP == NextPoint(anchors, BeatProp, time)
        currentMeasureIndex == posData.measure - 1
        x == CursorXOf(posData, nextP)
    IN  IF /\ osmdRef # 0
           /\ loopFor
           /\ loads[osmdRef] = "resolved"
           /\ InMeasureList(currentMeasureIndex)
        THEN /\ cursorX' = x
             /\ scrollLeft' = ScrollAfterTick(isLocked, ~paused /\ mode # "RECORD",
                                  scrollLeft, x - CursorOffset,
                                  currentMeasureIndex # lastMeasureIndex)
             /\ curtainShown' = (revealMode = "CURTAIN")
             /\ hidden' = RevealAfterTick(hidden, posData.measure, x)
             /\ lastMeasureIndex' = currentMeasureIndex
             /\ lit' = LitAfterTick(posData)
        ELSE UNCHANGED <<cursorX, scrollLeft, curtainShown, hidden, lastMeasureIndex,
                         lit>>

----------------------------------------------------------------------------
(* The score view: useOSMD and the animation loop of ScrollView.  React     *)
(* runs an effect's cleanup and the effect in one commit; a state update   *)
(* made outside a commit reaches the effects that depend on it in a later  *)
(* commit; a state update of an unmounted component is dropped.            *)

MaxInstances == 2   \* OSMD instances one view creates
MaxFrames == 5      \* animation frames one view requests

\* cancelAnimationFrame that cancels nothing
CancelNothing(pending, id) == pending

\* cancelAnimationFrame(id)
cancelAnimationFrame(pending, id) == pending \ {id}

\* a cleanup that cancels nothing
LoopKeepsFrame(pending) == pending

\* the cleanup of the animation effect, which exists when the effect ran with
\* isLoaded true: if (animationFrameRef.current) cancelAnimationFrame(...)
LoopCleanup(pending) ==
    IF loopFor /\ frameRef # 0 THEN cancelAnimationFrame(pending, frameRef) ELSE pending

\* the mount: useOSMD's effect makes the first instance and starts its load;
\* the animation effect returns at once, isLoaded being false
Mount ==
    /\ mounted = "no"
    /\ mounted' = "yes"
    /\ loads' = Append(loads, "pending")
    /\ osmdRef' = Len(loads) + 1
    /\ loopFor' = FALSE
    /\ last' = [op |-> "mount", measure |-> 0, time |-> 0]
    /\ UNCHANGED <<isLoaded, frameRef, frames>>
    /\ UNCHANGED <<anchors, beatAnchors, isLevel2Mode, mode, subdivision, audioTime,
                   project, renderVars, pos>>

\* musicXmlUrl changes: useOSMD's cleanup (osmdRef.current = null,
\* setIsLoaded(false)), then its effect with a new instance and a new load
ChangeUrl ==
    /\ mounted = "yes"
    /\ Len(loads) < MaxInstances
    /\ loads' = Append(loads, "pending")
    /\ osmdRef' = Len(loads) + 1
    /\ isLoaded' = FALSE
    /\ last' = [op |-> "changeUrl", measure |-> 0, time |-> 0]
    /\ UNCHANGED <<mounted, loopFor, frameRef, frames>>
    /\ UNCHANGED <<anchors, beatAnchors, isLevel2Mode, mode, subdivision, audioTime,
                   project, renderVars, pos>>

\* the load promise of instance i resolves: osmd.render(), setIsLoaded(true)
LoadResolve ==
    \E i \in DOMAIN loads :
        /\ loads[i] = "pending"
        /\ loads' = [loads EXCEPT ![i] = "resolved"]
        /\ isLoaded' = IF mounted = "yes" THEN TRUE ELSE isLoaded
        /\ last' = [op |-> "resolve", measure |-> i, time |-> 0]
        /\ UNCHANGED <<mounted, osmdRef, loopFor, frameRef, frames>>
        /\ UNCHANGED <<anchors, beatAnchors, isLevel2Mode, mode, subdivision, audioTime,
                       project, renderVars, pos>>

\* the load promise of instance i rejects: the error is logged
LoadReject ==
    \E i \in DOMAIN loads :
        /\ loads[i] = "pending"
        /\ loads' = [loads EXCEPT ![i] = "rejected"]
        /\ last' = [op |-> "reject", measure |-> i, time |-> 0]
        /\ UNCHANGED <<mounted, osmdRef, isLoaded, loopFor, frameRef, frames>>
        /\ UNCHANGED <<anchors, beatAnchors, isLevel2Mode, mode, subdivision, audioTime,
                       project, renderVars, pos>>

\* the animation effect runs again, for a new isLoaded or a new
\* updateCursorPosition: the cleanup of its last run, then the effect
SyncLoop ==
    /\ mounted = "yes"
    /\ loopFor \/ isLoaded
    /\ isLoaded => frameRef < MaxFrames
    /\ loopFor' = isLoaded
    /\ frameRef' = IF isLoaded THEN frameRef + 1 ELSE frameRef
    /\ frames' = IF isLoaded THEN LoopCleanup(frames) \cup {frameRef + 1}
                 ELSE LoopCleanup(frames)
    /\ last' = [op |-> "syncLoop", measure |-> 0, time |-> 0]
    /\ UNCHANGED <<mounted, loads, osmdRef, isLoaded>>
    /\ UNCHANGED <<anchors, beatAnchors, isLevel2Mode, mode, subdivision, audioTime,
                   project, renderVars, pos>>

\* the browser runs a pending frame: animate calls updateCursorPosition and
\* requests the next frame
Tick ==
    \E id \in frames :
        /\ frameRef < MaxFrames
        /\ frameRef' = frameRef + 1
        /\ frames' = (frames \ {id}) \cup {frameRef + 1}
        /\ updateCursorPosition(audioTime)
        /\ last' = [op |-> "tick", measure |-> id, time |-> audioTime]
        /\ UNCHANGED <<mounted, loads, osmdRef, isLoaded, loopFor>>
        /\ UNCHANGED <<staffEntries, beatXMap,
                       revealMode, isLocked, paused, measureCount, prevRevealMode,
                       resizeTimers, rebuilds, drag>>
        /\ UNCHANGED <<anchors, beatAnchors, isLevel2Mode, mode, subdivision, audioTime,
                       project, pos>>

\* the view is torn down: the cleanups of both effects; its state is dropped
Unmount ==
    /\ mounted = "yes"
    /\ mounted' = "gone"
    /\ frames' = LoopCleanup(frames)
    /\ osmdRef' = 0
    /\ isLoaded' = FALSE
    /\ loopFor' = FALSE
    /\ last' = [op |-> "unmount", measure |-> 0, time |-> 0]
    /\ UNCHANGED <<loads, frameRef>>
    /\ UNCHANGED <<anchors, beatAnchors, isLevel2Mode, mode, subdivision, audioTime,
                   project, renderVars, pos>>

NextView ==
    \/ Mount
    \/ ChangeUrl
    \/ LoadResolve
    \/ LoadReject
    \/ SyncLoop
    \/ Tick
    \/ Unmount

SpecView == Init /\ [][NextView]_vars

----------------------------------------------------------------------------
(* The render tick at work: a mounted view with its score loaded, the maps *)
(* of calculateNoteMap built and the loop running.  A change of a prop is  *)
(* one commit: the effects that depend on it run, and the animation effect *)
(* restarts the loop because updateCursorPosition is a new function.       *)

\* timelines the editor builds: the seed or two measure anchors, with one
\* beat anchor at most and that one under Level 2
RenderTimelines ==
    LET lists == {INITIAL_ANCHORS}
                    \cup {<<Anchor(1, 0), Anchor(m, t)>> :
                             m \in Measures \ {1}, t \in Times \ {0}}
    IN  {[anchors |-> as, beatAnchors |-> <<>>, isLevel2Mode |-> FALSE] : as \in lists}
           \cup {[anchors |-> as, beatAnchors |-> <<BeatAnchor(1, 2, t)>>,
                  isLevel2Mode |-> TRUE] : as \in lists, t \in Times \ {0}}

\* the view after mount, load and the first run of the animation effect,
\* playing the timeline tl from time 0
LoadedView(tl) ==
    /\ anchors = tl.anchors
    /\ beatAnchors = tl.beatAnchors
    /\ isLevel2Mode = tl.isLevel2Mode
    /\ mode = "PLAYBACK"
    /\ subdivision = DEFAULT_SUBDIVISION
    /\ audioTime = 0
    /\ project = NoProject
    /\ mounted = "yes"
    /\ loads = <<"resolved">>
    /\ osmdRef = 1
    /\ isLoaded = TRUE
    /\ loopFor = TRUE
    /\ frameRef = 1
    /\ frames = {1}
    /\ revealMode = "OFF"
    /\ isLocked = TRUE
    /\ paused = FALSE
    /\ measureCount \in 1..MaxMeasure
    /\ cursorX = 0
    /\ scrollLeft = 0
    /\ curtainShown = FALSE
    /\ hidden = {}
    /\ lit = {}
    /\ lastMeasureIndex = 0 - 1
    /\ prevRevealMode = "OFF"
    /\ resizeTimers = 0
    /\ rebuilds = 0
    /\ drag = NoDrag
    /\ last = NoOp
    /\ pos = NoPos

\* the loaded view once calculateNoteMap has built its maps
Loaded(tl) ==
    /\ LoadedView(tl)
    /\ staffEntries = DefaultEntries
    /\ beatXMap = calculateNoteMap(measureCount, staffEntries)

\* the animation effect after a change of updateCursorPosition: the cleanup
\* of its last run, then a new first frame
Restart ==
    /\ loopFor
    /\ frameRef < MaxFrames
    /\ frameRef' = frameRef + 1
    /\ frames' = LoopCleanup(frames) \cup {frameRef + 1}
    /\ UNCHANGED <<mounted, loads, osmdRef, isLoaded, loopFor>>

\* the transport clock moves on, or the user seeks
SeekIn(T) ==
    \E t \in T :
        /\ audioTime' = t
        /\ last' = [op |-> "seek", measure |-> 0, time |-> t]
        /\ UNCHANGED <<anchors, beatAnchors, isLevel2Mode, mode, subdivision, project,
                       viewVars, renderVars, pos>>

\* a seek within the times of the editor's timelines
Seek == SeekIn(Times)

\* toggleMode while the view is up
ViewToggleMode ==
    /\ mode' = IF mode = "PLAYBACK" THEN "RECORD" ELSE "PLAYBACK"
    /\ Restart
    /\ last' = [op |-> "toggleMode", measure |-> 0, time |-> 0]
    /\ UNCHANGED <<anchors, beatAnchors, isLevel2Mode, subdivision, audioTime, project,
                   renderVars, pos>>

\* a switch that restores nothing
NoRestoreOnSwitch(prev, reveal, hid) == hid

\* "MODE SWITCHING EFFECT", its first statement
RestoreOnSwitch(prev, reveal, hid) ==
    IF prev = "NOTE" /\ reveal # "NOTE" THEN {} ELSE hid

\* the hidden elements after the two effects of a new revealMode: "INITIAL
\* NOTE-REVEAL VISIBILITY", then "MODE SWITCHING EFFECT"
HiddenAfterSwitch(reveal, measure) ==
    LET initial == IF isLoaded /\ reveal = "NOTE" /\ AllElements # {}
                   THEN {e \in AllElements : ~(e[1] < measure)}
                   ELSE hidden
        restored == RestoreOnSwitch(prevRevealMode, reveal, initial)
        swept == updateMeasureVisibility(reveal, restored, measure)
    IN  IF reveal = "CURTAIN" THEN {} ELSE swept

\* setRevealMode(reveal)
SetRevealMode ==
    \E reveal \in {"OFF", "NOTE", "CURTAIN"} \ {revealMode} :
        /\ revealMode' = reveal
        /\ hidden' = HiddenAfterSwitch(reveal,
                         findCurrentPosition(anchors, BeatProp, audioTime).measure)
        /\ lastMeasureIndex' = IF isLoaded /\ reveal = "NOTE" /\ AllElements # {}
                               THEN 0 - 1 ELSE lastMeasureIndex
        /\ prevRevealMode' = reveal
        /\ Restart
        /\ last' = [op |-> "setRevealMode", measure |-> 0, time |-> Cardinality(hidden)]
        /\ UNCHANGED <<staffEntries, beatXMap,
                       isLocked, paused, measureCount, cursorX, scrollLeft, curtainShown,
                       lit, resizeTimers, rebuilds, drag>>
        /\ UNCHANGED <<anchors, beatAnchors, isLevel2Mode, mode, subdivision, audioTime,
                       project, pos>>

\* setIsLocked(!isLocked)
ToggleLock ==
    /\ isLocked' = ~isLocked
    /\ Restart
    /\ last' = [op |-> "toggleLock", measure |-> 0, time |-> 0]
    /\ UNCHANGED <<staffEntries, beatXMap,
                   revealMode, paused, measureCount, cursorX, scrollLeft, curtainShown,
                   hidden, lit, lastMeasureIndex, prevRevealMode, resizeTimers, rebuilds,
                   drag>>
    /\ UNCHANGED <<anchors, beatAnchors, isLevel2Mode, mode, subdivision, audioTime,
                   project, pos>>

\* play or pause of the audio element
PlayPause ==
    /\ paused' = ~paused
    /\ last' = [op |-> "playPause", measure |-> 0, time |-> 0]
    /\ UNCHANGED <<staffEntries, beatXMap,
                   revealMode, isLocked, measureCount, cursorX, scrollLeft, curtainShown,
                   hidden, lit, lastMeasureIndex, prevRevealMode, resizeTimers, rebuilds,
                   drag>>
    /\ UNCHANGED <<anchors, beatAnchors, isLevel2Mode, mode, subdivision, audioTime,
                   project, viewVars, pos>>

\* where the user leaves the scroll bar
ScrollStops == {ClampScroll(k * SLACK) : k \in 0..3}

\* the user scrolls the score
UserScroll ==
    \E x \in ScrollStops \ {scrollLeft} :
        /\ scrollLeft' = x
        /\ last' = [op |-> "scroll", measure |-> 0, time |-> 0]
        /\ UNCHANGED <<staffEntries, beatXMap,
                       revealMode, isLocked, paused, measureCount, cursorX, curtainShown,
                       hidden, lit, lastMeasureIndex, prevRevealMode, resizeTimers,
                       rebuilds, drag>>
        /\ UNCHANGED <<anchors, beatAnchors, isLevel2Mode, mode, subdivision, audioTime,
                       project, viewVars, pos>>

\* the cursor in both modes
InitCursor == \E tl \in RenderTimelines : Loaded(tl)

NextCursor ==
    \/ Tick
    \/ Seek
    \/ ViewToggleMode

SpecCursor == InitCursor /\ [][NextCursor]_vars

\* the reveal modes, on timelines without beat anchors
InitReveal == \E tl \in RenderTimelines : tl.beatAnchors = <<>> /\ Loaded(tl)

NextReveal ==
    \/ Tick
    \/ Seek
    \/ SetRevealMode

SpecReveal == InitReveal /\ [][NextReveal]_vars

\* the camera, on timelines without beat anchors
NextScroll ==
    \/ Tick
    \/ Seek
    \/ UserScroll
    \/ ToggleLock
    \/ PlayPause

SpecScroll == InitReveal /\ [][NextScroll]_vars

\* a step of the loop: every tick takes a new frame
TickStep == last'.op = "tick" /\ frameRef' # frameRef

\* what the tick at hand resolves
TickPos == findCurrentPosition(anchors, BeatProp, audioTime)

\* C19: once the view is torn down no animation frame is pending and no tick
\* runs.
C19_NoTickAfterTeardown ==
    mounted = "gone" => (frames = {} /\ last.op # "tick")

\* the loop had run for two frames at least when the view went
C19_Witness ==
    /\ mounted = "gone"
    /\ frameRef >= 2
    /\ last.op = "unmount"

\* C20: isLoaded is true only while the instance in osmdRef has completed its
\* own load.
C20_LoadedMeansCurrentLoaded ==
    isLoaded => (osmdRef # 0 /\ loads[osmdRef] = "resolved")

\* the position of the tick at hand with its progress set to 0
TickPosAtStart == [TickPos EXCEPT !.progress = Frac(0, 1)]

\* C21: in RECORD mode a tick places the cursor at progress 0, the start of
\* the resolved position.
C21_RecordCursorAtStart ==
    [][(TickStep /\ mode = "RECORD" /\ InMeasureList(TickPos.measure - 1))
          => cursorX' = CursorXOf(TickPosAtStart,
                                  NextPoint(anchors, BeatProp, audioTime))]_vars

\* C22: a tick in RECORD mode leaves no note highlighted.
C22_RecordClearsHighlight ==
    [][(TickStep /\ mode = "RECORD") => lit' = {}]_vars

C26_SwitchRestoresVisibility ==
    revealMode # "NOTE" => hidden = {}

\* NOTE reveal had hidden elements when it was switched off
C26_Witness ==
    /\ last.op = "setRevealMode"
    /\ last.time > 0
    /\ revealMode = "OFF"
    /\ prevRevealMode = "OFF"
    /\ hidden = {}

\* C27: a tick that runs with revealMode other than CURTAIN leaves the
\* curtain hidden.
C27_TickHidesCurtain ==
    [][(TickStep /\ revealMode # "CURTAIN") => ~curtainShown']_vars

\* the scroll target of the tick at hand
TickTarget ==
    CursorXOf(TickPos, NextPoint(anchors, BeatProp, audioTime)) - CursorOffset

C24_OneFramePending ==
    Cardinality(frames) <= 1 /\ frames \subseteq {frameRef}

\* the loop was restarted while it was running, after a tick
C24_Witness ==
    /\ last.op = "syncLoop"
    /\ isLoaded
    /\ lastMeasureIndex >= 0
    /\ frames = {frameRef}

----------------------------------------------------------------------------
(* The resize handler of ScrollView *)

MaxResizes == 3   \* resize events one view receives

\* handleResize: setTimeout(() => calculateNoteMap(), 500); the listener is
\* on the window while the view is mounted
HandleResize ==
    /\ mounted = "yes"
    /\ resizeTimers + rebuilds < MaxResizes
    /\ resizeTimers' = resizeTimers + 1
    /\ last' = [op |-> "resize", measure |-> 0, time |-> 0]
    /\ UNCHANGED <<staffEntries, beatXMap,
                   revealMode, isLocked, paused, measureCount, cursorX, scrollLeft,
                   curtainShown, hidden, lit, lastMeasureIndex, prevRevealMode, rebuilds,
                   drag>>
    /\ UNCHANGED <<anchors, beatAnchors, isLevel2Mode, mode, subdivision, audioTime,
                   project, viewVars, pos>>

\* a timeout of handleResize expires: calculateNoteMap is called
RebuildTimer ==
    /\ resizeTimers > 0
    /\ resizeTimers' = resizeTimers - 1
    /\ rebuilds' = rebuilds + 1
    /\ beatXMap' = calculateNoteMap(measureCount, staffEntries)
    /\ last' = [op |-> "rebuild", measure |-> 0, time |-> 0]
    /\ UNCHANGED <<staffEntries,
                   revealMode, isLocked, paused, measureCount, cursorX, scrollLeft,
                   curtainShown, hidden, lit, lastMeasureIndex, prevRevealMode, drag>>
    /\ UNCHANGED <<anchors, beatAnchors, isLevel2Mode, mode, subdivision, audioTime,
                   project, viewVars, pos>>

NextResize ==
    \/ NextView
    \/ HandleResize
    \/ RebuildTimer

SpecResize == Init /\ [][NextResize]_vars

\* C23: at most one rebuild timer is pending.
C23_OneRebuildPending ==
    resizeTimers <= 1

----------------------------------------------------------------------------
(* Marker drags: the markers of WaveformTimeline and the in-score markers  *)
(* of ScrollView.  A pixel delta is taken in the ticks it converts to.     *)

Deltas == (0 - MaxTime)..MaxTime

MeasureMarkers == {"waveform", "score"}
BeatMarkers == {"waveformBeat", "scoreBeat"}

\* Math.max(0, startTime + delta)
NewTime(d) == IF drag.startTime + d < 0 THEN 0 ELSE drag.startTime + d

\* onMouseDown of a measure marker: the in-score markers exist in RECORD mode
\* for the measures of measureXMap
MouseDownMeasure ==
    \E kind \in MeasureMarkers, i \in DOMAIN anchors :
        /\ drag = NoDrag
        /\ kind = "score" => (mode = "RECORD" /\ anchors[i].measure \in 1..measureCount)
        /\ drag' = [kind |-> kind, measure |-> anchors[i].measure, beat |-> 1,
                    startTime |-> anchors[i].time]
        /\ last' = [op |-> "mousedown", measure |-> anchors[i].measure,
                    time |-> anchors[i].time]
        /\ UNCHANGED <<staffEntries, beatXMap,
                       revealMode, isLocked, paused, measureCount, cursorX, scrollLeft,
                       curtainShown, hidden, lit, lastMeasureIndex, prevRevealMode,
                       resizeTimers, rebuilds>>
        /\ UNCHANGED <<anchors, beatAnchors, isLevel2Mode, mode, subdivision, audioTime,
                       project, viewVars, pos>>

\* onMouseDown of a beat marker: the in-score markers exist in RECORD mode for
\* the beats with a position other than 0 in beatXMapRef
MouseDownBeat ==
    \E kind \in BeatMarkers, i \in DOMAIN BeatProp :
        /\ drag = NoDrag
        /\ kind = "scoreBeat" =>
              /\ mode = "RECORD"
              /\ BeatProp[i].measure \in 1..measureCount
              /\ BeatProp[i].beat \in 1..BeatsInMeasure
              /\ BeatX(BeatProp[i].measure, BeatProp[i].beat) # 0
        /\ drag' = [kind |-> kind, measure |-> BeatProp[i].measure,
                    beat |-> BeatProp[i].beat, startTime |-> BeatProp[i].time]
        /\ last' = [op |-> "mousedown", measure |-> BeatProp[i].measure,
                    time |-> BeatProp[i].time]
        /\ UNCHANGED <<staffEntries, beatXMap,
                       revealMode, isLocked, paused, measureCount, cursorX, scrollLeft,
                       curtainShown, hidden, lit, lastMeasureIndex, prevRevealMode,
                       resizeTimers, rebuilds>>
        /\ UNCHANGED <<anchors, beatAnchors, isLevel2Mode, mode, subdivision, audioTime,
                       project, viewVars, pos>>

\* the mousemove listener of the drag: onMove, handleMove, and the empty
\* handleMouseMove of the in-score measure marker
MouseMove ==
    \E d \in Deltas :
        /\ drag # NoDrag
        /\ NewTime(d) <= MaxTime
        /\ anchors' = IF drag.kind = "waveform"
                      THEN upsertAnchor(anchors, drag.measure, NewTime(d))
                      ELSE anchors
        /\ beatAnchors' = IF drag.kind \in BeatMarkers
                          THEN upsertBeatAnchor(beatAnchors, drag.measure, drag.beat,
                                                NewTime(d))
                          ELSE beatAnchors
        /\ last' = [op |-> "mousemove", measure |-> drag.measure, time |-> NewTime(d)]
        /\ UNCHANGED <<isLevel2Mode, mode, subdivision, audioTime, project, viewVars,
                       renderVars, pos>>

\* the mouseup listener of the drag: onUp, handleUp, and handleMouseUp of the
\* in-score measure marker, which commits the drag
MouseUp ==
    \E d \in Deltas :
        /\ drag # NoDrag
        /\ NewTime(d) <= MaxTime
        /\ anchors' = IF drag.kind = "score"
                      THEN upsertAnchor(anchors, drag.measure, NewTime(d))
                      ELSE anchors
        /\ drag' = NoDrag
        /\ last' = [op |-> "mouseup", measure |-> drag.measure, time |-> NewTime(d)]
        /\ UNCHANGED <<staffEntries, beatXMap,
                       revealMode, isLocked, paused, measureCount, cursorX, scrollLeft,
                       curtainShown, hidden, lit, lastMeasureIndex, prevRevealMode,
                       resizeTimers, rebuilds>>
        /\ UNCHANGED <<beatAnchors, isLevel2Mode, mode, subdivision, audioTime, project,
                       viewVars, pos>>

NextDrag ==
    \/ MouseDownMeasure
    \/ MouseDownBeat
    \/ MouseMove
    \/ MouseUp
    \/ ViewToggleMode

SpecDrag == InitCursor /\ [][NextDrag]_vars

\* C29: every pointer-move of a marker drag upserts the dragged anchor with
\* max(0, time at pointer-down + delta), and pointer-up changes no anchor.
C29_EveryMoveCommits ==
    [][/\ \A d \in Deltas :
            (/\ drag # NoDrag
             /\ drag' = drag
             /\ last' = [op |-> "mousemove", measure |-> drag.measure,
                         time |-> NewTime(d)])
               => /\ drag.kind \in MeasureMarkers
                       => anchors' = upsertAnchor(anchors, drag.measure, NewTime(d))
                  /\ drag.kind \in BeatMarkers
                       => beatAnchors' = upsertBeatAnchor(beatAnchors, drag.measure,
                                                          drag.beat, NewTime(d))
       /\ (drag # NoDrag /\ drag' = NoDrag) => UNCHANGED <<anchors, beatAnchors>>]_vars

----------------------------------------------------------------------------
(* The editor with the sidebar's time inputs: parseFloat of an emptied *)
(* field is NaN                                                          *)

\* the time input of an anchor row, enabled in RECORD mode for measures
\* other than 1
SidebarEditAnchor ==
    \E i \in DOMAIN anchors, t \in StoredTimes :
        /\ mode = "RECORD"
        /\ anchors[i].measure # 1
        /\ Upsert(anchors[i].measure, t, MaxBeatEdited)
        /\ UNCHANGED last

\* the time input of a beat row
SidebarEditBeat ==
    \E i \in DOMAIN beatAnchors, t \in StoredTimes :
        UpsertBeat(beatAnchors[i], t) /\ UNCHANGED last

NextSidebar ==
    \/ NextBeats
    \/ SidebarEditAnchor
    \/ SidebarEditBeat

SpecSidebar == Init /\ [][NextSidebar]_vars

\* C30: every measure anchor and every beat anchor has a defined time >= 0.
C30_TimesDefined ==
    /\ \A i \in DOMAIN anchors : ~IsNaN(anchors[i].time) /\ anchors[i].time >= 0
    /\ \A i \in DOMAIN beatAnchors :
          ~IsNaN(beatAnchors[i].time) /\ beatAnchors[i].time >= 0

----------------------------------------------------------------------------
(* The edit operations on the measure anchors, from the seed: tap, marker  *)
(* drags, the sidebar's time inputs and "Fix" buttons, delete, reset.      *)

\* the measures of the sidebar's ghost rows: 1..maxMeasure without an anchor
GhostMeasures(as) ==
    {m \in 1..(MaxAnchors + 1) :
        /\ \E i \in DOMAIN as : as[i].measure >= m
        /\ \A i \in DOMAIN as : as[i].measure # m}

\* the "Fix" button of a ghost row, rendered in RECORD mode
RestampGhost ==
    \E m \in GhostMeasures(anchors), t \in Times :
        /\ mode = "RECORD"
        /\ Upsert(m, t, MaxAnchors)
        /\ last' = [op |-> "restamp", measure |-> m, time |-> t]

\* the time input of an anchor row
EditAnchorRow ==
    \E i \in DOMAIN anchors, t \in Times :
        /\ mode = "RECORD"
        /\ anchors[i].measure # 1
        /\ Upsert(anchors[i].measure, t, MaxAnchors)
        /\ last' = [op |-> "edit", measure |-> anchors[i].measure, time |-> t]

NextEdit ==
    \/ HandleTap
    \/ MouseDownMeasure
    \/ MouseMove
    \/ MouseUp
    \/ EditAnchorRow
    \/ RestampGhost
    \/ HandleDelete
    \/ HandleReset
    \/ ToggleMode

SpecEdit == Init /\ [][NextEdit]_vars

\* C31: the anchor of measure 1 has time 0 in every state the edit
\* operations reach from the seed.
C31_SeedAtZero ==
    \A i \in DOMAIN anchors : anchors[i].measure = 1 => anchors[i].time = 0

----------------------------------------------------------------------------
(* The beat map of calculateNoteMap over renderings with other onsets      *)

MaxEntries == 3   \* staff entries of one measure

\* onsets on beats 1 and 3, and three onsets around beat 2 (150 px)
EntryOffsets == {0, 100, 140, 200, 300}

\* a loaded view of the seed timeline whose beat map is not built yet
InitBeatMap ==
    /\ LoadedView([anchors |-> INITIAL_ANCHORS, beatAnchors |-> <<>>,
                   isLevel2Mode |-> FALSE])
    /\ staffEntries \in SeqsUpTo(EntryOffsets, MaxEntries)
    /\ beatXMap = <<>>

NextBeatMap ==
    \/ HandleResize
    \/ RebuildTimer

SpecBeatMap == InitBeatMap /\ [][NextBeatMap]_vars

\* the linear target position of beat b: mStart + mWidth * (b - 1) / numerator
LinearX(m, b) == MeasureLeft(m) + (MeasureWidth * (b - 1)) \div BeatsInMeasure

\* the rendered onsets nearest to the target of beat b that lie within 40%
\* of the inter-beat spacing of it
NearestWithin(entries, m, b) ==
    LET xs == {MeasureLeft(m) + entries[i] : i \in DOMAIN entries}
    IN  {x \in xs :
            /\ \A y \in xs : Abs(x - LinearX(m, b)) <= Abs(y - LinearX(m, b))
            /\ Abs(x - LinearX(m, b)) * BeatsInMeasure * 10 < MeasureWidth * 4}

\* C32: a beat's x in the beat map is the x of the rendered onset nearest to
\* the beat's linear target when that onset lies within 40% of the beat
\* spacing of the target, and the linear target otherwise.
C32_BeatSnapsToNearest ==
    \A m \in DOMAIN beatXMap : \A b \in DOMAIN beatXMap[m] :
        IF NearestWithin(staffEntries, m, b) # {}
        THEN beatXMap[m][b] \in NearestWithin(staffEntries, m, b)
        ELSE beatXMap[m][b] = LinearX(m, b)

----------------------------------------------------------------------------
(* The sidebar's current measure next to the cursor's resolver             *)

\* getCurrentMeasure of App: sort by time, reverse, find a.time <= time
getCurrentMeasure(as, time) ==
    IF Len(as) = 0 THEN 1
    ELSE LET reversed == Reverse(SortByTime(as))
             hits == {i \in DOMAIN reversed : Geq(time, reversed[i].time)}
         IN  IF hits = {} THEN 1
             ELSE reversed[CHOOSE i \in hits : \A j \in hits : i <= j].measure

\* onTimeUpdate of the audio element at transport time t: the measure the
\* sidebar highlights
TimeUpdate ==
    \E t \in Times :
        /\ Len(anchors) > 0
        /\ pos' = [by |-> "getCurrentMeasure", time |-> t,
                   measure |-> getCurrentMeasure(anchors, t), beat |-> 1,
                   progress |-> Frac(0, 1)]
        /\ UNCHANGED <<anchors, beatAnchors, isLevel2Mode, mode, last, others>>

NextAgree ==
    \/ Resolve
    \/ TimeUpdate

SpecAgree == InitResolver /\ [][NextAgree]_vars

\* C33: the measure the sidebar computes for a playback time is the measure
\* the cursor's resolver returns for it, with Level-2 mode off and on.
C33_SidebarAgreesWithCursor ==
    pos.by = "getCurrentMeasure"
        => pos.measure = findCurrentPosition(anchors, BeatProp, pos.time).measure

----------------------------------------------------------------------------
(* Beat anchors and their measure anchors, stated for SpecLongLists        *)

\* C34: every beat anchor's measure has a measure anchor, after a delete and
\* after a reset as after every other edit.
C34_BeatsHaveOwner ==
    \A i \in DOMAIN beatAnchors :
        \E j \in DOMAIN anchors : anchors[j].measure = beatAnchors[i].measure

----------------------------------------------------------------------------
(* The highlight across a measure change, stated for SpecCursor            *)

\* C35: after a render tick in PLAYBACK mode no note outside the resolved
\* measure is highlighted.
C35_HighlightInCurrentMeasure ==
    (/\ last.op = "tick"
     /\ mode = "PLAYBACK"
     /\ InMeasureList(findCurrentPosition(anchors, BeatProp, audioTime).measure - 1))
        => \A note \in lit :
              note[1] = findCurrentPosition(anchors, BeatProp, audioTime).measure

----------------------------------------------------------------------------
(* The cursor over a measure with generated beat anchors: the subdivision  *)
(* input takes 2..16, the score's measures have BeatsInMeasure beats.      *)

\* subdivision counts up to one more than the time-signature numerator
BeatCounts == 2..(BeatsInMeasure + 1)

\* the anchor time of measure 2: a tick per beat of the largest subdivision
SpanTime == BeatsInMeasure + 1

SpanTimes == 0..SpanTime

\* the subdivision input of the sidebar
SetBeatCount ==
    \E v \in BeatCounts :
        /\ SetSubdivision(v)
        /\ last' = [op |-> "subdivision", measure |-> 0, time |-> v]

\* the "Regenerate" button of the sidebar
RegenerateBeats ==
    /\ Generate
    /\ last' = [op |-> "generate", measure |-> 0, time |-> 0]

InitBeatCursor ==
    Loaded([anchors |-> <<Anchor(1, 0), Anchor(2, SpanTime)>>, beatAnchors |-> <<>>,
            isLevel2Mode |-> TRUE])

NextBeatCursor ==
    \/ Tick
    \/ SeekIn(SpanTimes)
    \/ SetBeatCount
    \/ RegenerateBeats

SpecBeatCursor == InitBeatCursor /\ [][NextBeatCursor]_vars

\* the cursor x the tick computes at time t
CursorXAt(t) ==
    CursorXOf(findCurrentPosition(anchors, BeatProp, t), NextPoint(anchors, BeatProp, t))

\* C36: in Level-2 mode, with control points whose times increase in
\* (measure, beat) order, the cursor x of a tick lies within the resolved
\* measure's left and right bounds and is not less than the cursor x of an
\* earlier time of the same measure.
C36_CursorMonotonicInMeasure ==
    (/\ last.op = "tick"
     /\ isLevel2Mode
     /\ beatAnchors # <<>>
     /\ IncreasingInKeyOrder(Points)
     /\ InMeasureList(TickPos.measure - 1))
        => /\ MeasureLeft(TickPos.measure) <= cursorX
           /\ cursorX <= MeasureLeft(TickPos.measure) + MeasureWidth
           /\ \A t \in SpanTimes :
                 (/\ t < audioTime
                  /\ findCurrentPosition(anchors, BeatProp, t).measure = TickPos.measure)
                    => CursorXAt(t) <= cursorX

----------------------------------------------------------------------------
(* The camera with the lock off, stated for SpecScroll                     *)

\* C37: with the camera lock off, a render tick leaves the scroll offset of
\* the score container as it is, in the measure of the tick before it and in
\* another measure.
C37_UnlockedTickKeepsScroll ==
    [][(TickStep /\ ~isLocked) => scrollLeft' = scrollLeft]_vars

====
